---- MODULE Spec2Model ----
(***************************************************************************)
(* Model of the yolov8_ros detection node                                  *)
(* (src/yolov8_ros/scripts/yolo_v8.py, class Yolo_Dect).                   *)
(*                                                                         *)
(* The model follows the callbacks of one receive thread, one after the   *)
(* other; how rospy queues frames and hands them to the callback is not    *)
(* code of this file and is not modelled.  A callback decodes the message  *)
(* into self.color_image, runs model1 and model2 on it, copies it, draws   *)
(* every detection of model1 and then of model2 on the copy, and publishes *)
(* the copy on image_pub.  An exception anywhere leaves the callback;      *)
(* rospy logs it and the node waits for the next message.  Callbacks can   *)
(* run from the moment __init__ has created the subscriber, while the main *)
(* thread is still creating the two publishers.                            *)
(*                                                                         *)
(* numpy arrays are objects: the model keeps them in a heap and the        *)
(* program's names (self.color_image, combined_frame) are references.      *)
(***************************************************************************)
EXTENDS Integers, Sequences, FiniteSets, TLC

\* ------------------------------------------------------------------ bounds

\* Largest number of pixels (height * width) of an inbound frame.
MaxPixels == 4
\* Largest number of detections the two models return for a frame, together.
MaxDet == 3

\* Largest number of channels a raw payload is cut for.
MaxChannels == 5

\* ------------------------------------------------------------- basic values

NoneVal == [kind |-> "None"]
Free == [kind |-> "Free"]

Min(a, b) == IF a <= b THEN a ELSE b
Max(a, b) == IF a >= b THEN a ELSE b
Abs(a) == IF a >= 0 THEN a ELSE -a

\* ---------------------------------------------------------------- messages

\* A test pattern: byte i of the payload is (37 * i) mod 256, so that the
\* three channels of every pixel differ.
Ramp(n) == [i \in 1..n |-> (37 * i) % 256]

Encodings == {"bgr8", "rgb8"}

Dims == {d \in (0..MaxPixels) \X (0..MaxPixels) : d[1] * d[2] <= MaxPixels}

\* sensor_msgs/Image as the callback reads it (height, width, data); the
\* encoding field says how the publisher packed the channels.
RawMsg(h, w, e, bytes) ==
    [kind |-> "raw", height |-> h, width |-> w, encoding |-> e, data |-> bytes]

\* The 2x2 frame of the specification's decode scenario.
ExampleData == <<0, 0, 255,  0, 255, 0,  255, 0, 0,  255, 255, 255>>

\* The payload lengths tried for a height x width frame: whole pixels of 0
\* to MaxChannels channels, and one byte less and one more than 3 channels.
PayloadLengths(h, w) ==
    {h * w * c : c \in 0..MaxChannels}
    \cup {n \in {3 * h * w - 1, 3 * h * w + 1} : n >= 0}

\* The callback never reads the encoding field: BGR-packed frames of every
\* shape and payload length, and the example and a one-pixel frame in both
\* packings.
RawMsgs ==
    UNION {{RawMsg(d[1], d[2], "bgr8", Ramp(n)) : n \in PayloadLengths(d[1], d[2])} :
              d \in Dims}
    \cup {RawMsg(2, 2, e, ExampleData) : e \in Encodings}
    \cup {RawMsg(1, 1, e, Ramp(3)) : e \in Encodings}

\* A stand-in for the image codecs behind cv2.imdecode: a file is a magic
\* byte, the height, the width, and then height*width BGR pixels.
CodecMagic == 80

EncodeImage(h, w, bgr) == <<CodecMagic, h, w>> \o bgr

CompressedMsg(bytes) == [kind |-> "compressed", data |-> bytes]

CompressedMsgs ==
    {CompressedMsg(EncodeImage(d[1], d[2], Ramp(3 * d[1] * d[2]))) :
        d \in {e \in Dims : e[1] * e[2] > 0}}
    \cup {CompressedMsg(EncodeImage(2, 2, ExampleData))}
    \cup {CompressedMsg(Ramp(n)) : n \in 0..MaxPixels}
    \cup {CompressedMsg(EncodeImage(1, 1, Ramp(n))) : n \in {0, 3 + MaxPixels}}

\* ----------------------------------------------------------------- buffers

\* A numpy uint8 array of shape (height, width, channels), row-major.
Array(h, w, c, bytes) ==
    [kind |-> "ndarray", height |-> h, width |-> w, channels |-> c, data |-> bytes]

IsArray(v) == v.kind = "ndarray"

\* np.frombuffer(data).reshape(height, width, -1): the third dimension is
\* inferred; numpy raises ValueError when it cannot be.
ReshapeFails(bytes, h, w) ==
    \/ h * w = 0
    \/ Len(bytes) % (h * w) # 0

Reshape(bytes, h, w) ==
    IF ReshapeFails(bytes, h, w) THEN NoneVal
    ELSE Array(h, w, Len(bytes) \div (h * w), bytes)

\* cv2.cvtColor(src, COLOR_BGR2RGB) accepts a non-empty 3- or 4-channel
\* image and raises cv2.error otherwise (None, no channels, 1, 2, 5...).
CvtColorFails(src) ==
    \/ ~IsArray(src)
    \/ src.channels \notin {3, 4}
    \/ src.height * src.width = 0

\* A conversion that keeps the channel order.
SwapIndexNoSwap(p, k, c) == p * c + k + 1

\* The converted image has 3 channels: channel k of pixel p is channel
\* 2-k of the source pixel (a fourth source channel is dropped).
SwapIndex(p, k, c) == p * c + (2 - k) + 1

CvtColorBGR2RGB(src) ==
    IF CvtColorFails(src) THEN NoneVal
    ELSE Array(src.height, src.width, 3,
               [i \in 1..(3 * src.height * src.width) |->
                   src.data[SwapIndex((i - 1) \div 3, (i - 1) % 3, src.channels)]])

\* cv2.imdecode(np_arr, IMREAD_COLOR): a BGR image, or None when the bytes
\* are no image.
Decodable(bytes) ==
    /\ Len(bytes) >= 3
    /\ bytes[1] = CodecMagic
    /\ bytes[2] * bytes[3] > 0
    /\ Len(bytes) = 3 + 3 * bytes[2] * bytes[3]

Imdecode(bytes) ==
    IF Decodable(bytes)
    THEN Array(bytes[2], bytes[3], 3, SubSeq(bytes, 4, Len(bytes)))
    ELSE NoneVal

\* cv2.imdecode raises on an empty buffer instead of returning None.
ImdecodeRaises(bytes) == Len(bytes) = 0

\* np.zeros_like in place of copy(): the shape without the bytes.
CopyArrayBlank(src) == [src EXCEPT !.data = [i \in 1..Len(src.data) |-> 0]]

\* ndarray.copy(): a new array object holding the same bytes.
CopyArray(src) == src

\* np.array(imgdata).tobytes(): the bytes of the array in row-major order.
ToBytes(a) == a.data

\* -------------------------------------------------------------- detections

\* One box of results[0].boxes as the model returns it: xyxy in tenths of a
\* pixel (the tensor holds floats), the class id and the confidence: p
\* stands for the float32 nearest to p/1000, which is what the tensor holds
\* and what .item() hands to Python.
RawDet(x1, y1, x2, y2, k, p) == [xyxy |-> <<x1, y1, x2, y2>>, cls |-> k, conf |-> p]

DetA == RawDet(4, 6, 9, 9, 0, 914)
DetB == RawDet(12, 0, 19, 8, 1, 625)
DetPool == {DetA, DetB}

DetSeqs == UNION {[1..n -> DetPool] : n \in 0..MaxDet}

\* results[0].names of each model: model1 is the custom detector, model2
\* the stock yolov8m (COCO names).
Names1 == [k \in {0, 1} |-> IF k = 0 THEN "target" ELSE "obstacle"]
Names2 == [k \in {0, 1} |-> IF k = 0 THEN "person" ELSE "bicycle"]

\* One table for both models.
NamesOfModel1Only(m) == Names1

NamesOf(m) == IF m = 1 THEN Names1 ELSE Names2

\* np.int64(x) of a float truncates toward zero.
TruncInt(v) == IF v >= 0 THEN v \div 10 ELSE -((-v) \div 10)

\* The BoundingBox message handle_results fills in for one detection of
\* model m.
BoundingBoxOf(m, d) ==
    [xmin |-> TruncInt(d.xyxy[1]), ymin |-> TruncInt(d.xyxy[2]),
     xmax |-> TruncInt(d.xyxy[3]), ymax |-> TruncInt(d.xyxy[4]),
     Class |-> NamesOf(m)[d.cls], probability |-> d.conf]

\* The p ending in 5 whose float32 lies above p/1000: '.2f' rounds the
\* binary value, so these go up and the other ties (those whose float32
\* lies below, and 125, 375, 625, 875, which are exact and go to the even
\* digit) go as listed here or down.
TiesRoundedUp ==
    {25, 35, 45, 75, 85, 115, 135, 155, 165, 185, 215, 245, 275, 305, 335,
     365, 375, 395, 405, 425, 435, 455, 465, 485, 495, 535, 545, 555, 595,
     605, 615, 665, 675, 685, 725, 735, 745, 785, 795, 805, 845, 855, 865,
     875, 915, 925, 935, 975, 985, 995}

\* format(v, '.2f') of the float32 v that p stands for, in hundredths.
Format2f(p) ==
    IF p % 10 = 5
    THEN IF p \in TiesRoundedUp THEN p \div 10 + 1 ELSE p \div 10
    ELSE (p + 5) \div 10

\* f'{Class}: {probability:.2f}': the name and the confidence to two
\* decimals.
LabelOf(bb) == [name |-> bb.Class, hundredths |-> Format2f(bb.probability)]

\* ------------------------------------------------------------------ drawing

Green == <<0, 255, 0>>
Thickness == 2
LabelOffset == 10

\* cv2.rectangle with thickness 2 strokes each edge of the box one pixel to
\* either side of the edge and rounds the corners.
HalfWidth == Thickness \div 2

RectCovers(bb, x, y) ==
    LET x0 == Min(bb.xmin, bb.xmax)
        x1 == Max(bb.xmin, bb.xmax)
        y0 == Min(bb.ymin, bb.ymax)
        y1 == Max(bb.ymin, bb.ymax)
    IN  \/ /\ x0 <= x /\ x <= x1
           /\ \E e \in {y0, y1} : Abs(y - e) <= HalfWidth
        \/ /\ y0 <= y /\ y <= y1
           /\ \E e \in {x0, x1} : Abs(x - e) <= HalfWidth
        \/ \E cx \in {x0, x1}, cy \in {y0, y1} :
               Abs(x - cx) + Abs(y - cy) <= HalfWidth

\* The pixels of a frame.
FramePixels(a) == {<<x, y>> \in (0..(a.width - 1)) \X (0..(a.height - 1)) : TRUE}

\* cv2.putText with FONT_HERSHEY_SIMPLEX at scale 0.6 and thickness 2: the
\* strokes reach at most 14 rows above the baseline (capitals are 21 font
\* units, plus half the stroke) and at most 6 below it (descenders).
TextAscent == 14
TextDescent == 6

\* cv2.putText puts the label's baseline at (xmin, ymin - 10) and strokes
\* the glyphs to the right of it.  Where a pixel can be stroked: the rows of
\* the glyphs, from the left end of the text on (the label, nine characters
\* or more, is wider than any frame here).
TextExtent(bb, x, y) ==
    /\ x >= bb.xmin - HalfWidth
    /\ y >= bb.ymin - LabelOffset - TextAscent
    /\ y <= bb.ymin - LabelOffset + TextDescent

\* The glyph shapes are OpenCV's: which pixels of the extent a label
\* strokes is any of the sets it could.
TextInks(a, bb) == SUBSET {p \in FramePixels(a) : TextExtent(bb, p[1], p[2])}

\* The strokes of every label of one call of handle_results.
InkChoices(a, m, dets) ==
    LET T == [i \in 1..Len(dets) |-> TextInks(a, BoundingBoxOf(m, dets[i]))]
    IN  {s \in [1..Len(dets) -> UNION {T[i] : i \in 1..Len(dets)}] :
            \A i \in 1..Len(dets) : s[i] \in T[i]}

OverlayCovers(bb, ink, x, y) == RectCovers(bb, x, y) \/ <<x, y>> \in ink

PixelX(i, a) == ((i - 1) \div a.channels) % a.width
PixelY(i, a) == ((i - 1) \div a.channels) \div a.width

\* Both calls draw in place, clipped to the frame, in (0, 255, 0): f is the
\* frame as the call finds it, b the box and s the strokes it is given.
DrawOverlay(a, bb, ink) ==
    CHOOSE r \in
        {[f EXCEPT !.data =
             [i \in 1..Len(f.data) |->
                 IF OverlayCovers(b, s, PixelX(i, f), PixelY(i, f))
                 THEN Green[((i - 1) % f.channels) + 1]
                 ELSE f.data[i]]] : f \in {a}, b \in {bb}, s \in {ink}} : TRUE

\* The loop of handle_results over results[0].boxes, in the boxes' order.
RECURSIVE DrawAll(_, _, _, _)
DrawAll(a, m, dets, inks) ==
    IF dets = <<>> THEN a
    ELSE DrawAll(DrawOverlay(a, BoundingBoxOf(m, Head(dets)), Head(inks)),
                 m, Tail(dets), Tail(inks))

\* What the loop drew, in order: one entry per detection.
DrawLog(m, dets, inks, ref) ==
    [i \in 1..Len(dets) |->
        [model |-> m, box |-> BoundingBoxOf(m, dets[i]),
         label |-> LabelOf(BoundingBoxOf(m, dets[i])), ink |-> inks[i],
         target |-> ref]]

\* -------------------------------------------------------------------- state

VARIABLES
    cfg,             \* what __init__ leaves in self (all but color_image)
    pc,              \* where the callback thread is: "Idle" or a source line
    image,           \* the message the running callback was called with
    color_image,     \* self.color_image: "Unset", "None" or a heap reference
    combined_frame,  \* process_image's local: "None" or a heap reference
    heap,            \* the numpy arrays the two names refer to
    results1,        \* process_image's local: model1's boxes
    results2,        \* process_image's local: model2's boxes
    position_pub,    \* messages published on pub_topic by this callback
    image_pub,       \* messages published on /yolov8/detection_image by it
    calls,           \* the detector invocations of this callback, in order
    drawn,           \* the overlays drawn by this callback, in order
    decoded,         \* the array the decode step of this callback produced
    err,             \* the exception that ended this callback, or "None"
    failed,          \* whether an earlier callback ended by an exception
    ctor             \* the line __init__ is about to run, or "Done"

vars == <<cfg, pc, image, color_image, combined_frame, heap, results1, results2,
          position_pub, image_pub, calls, drawn, decoded, err, failed,
          ctor>>

Refs == {"color", "combined"}

\* The array a name refers to (None when it refers to no array).
Deref(ref) == IF ref \in Refs THEN heap[ref] ELSE NoneVal

\* --------------------------------------------------------- the code's choices

\* image_callback / compressed_image_callback, as subscribed in __init__.
MessagesFor(c) == IF c.use_compressed THEN CompressedMsgs ELSE RawMsgs

\* A callback that handed the message to the detectors undecoded.
EntryLineSkipDecode(c) == "L64"

EntryLine(c) == IF c.use_compressed THEN "L57" ELSE "L52"

\* A handler that swallowed a model's exception and went on with no boxes.
AfterDetectorFailureSwallowed(line) == IF line = "L64" THEN "L65" ELSE "L68"

\* A handler around the window calls that went on to the return.
AfterShowFailureSwallowed(line) == "Return"

\* No try/except surrounds imshow and waitKey either.
AfterShowFailure(line) == "Raised"

\* No try/except surrounds the model calls: an exception leaves the callback.
AfterDetectorFailure(line) == "Raised"

\* A handler that swallowed a decode error and went on to process_image.
AfterDecodeFailureSwallowed(line) == "L64"

\* Nor the decode statements.
AfterDecodeFailure(line) == "Raised"

\* A handler that swallowed an exception of handle_results and went on to
\* publish.
AfterDrawFailureSwallowed(line) == "L74"

\* Nor the handle_results calls.
AfterDrawFailure(line) == "Raised"

\* Nor line 105: a missing self.image_pub ends the callback.
AfterPublishFailure(line) == "Raised"

\* An exception that ends the node instead of the callback.
EndsCallbackReturnOnly == {"Return"}

\* Control goes back to rospy when process_image returns and when an
\* exception leaves the callback (rospy logs it and goes on).
EndsCallback == {"Return", "Raised"}

\* Both lines calling self.model1.
DetectorAtModel1Twice(line) == 1

\* process_image calls self.model1 on line 64 and self.model2 on line 65.
DetectorAt(line) == IF line = "L64" THEN 1 ELSE 2

\* A decode that stored its result in another attribute of self.
DecodedIntoCameraFrame == "camera_frame"

\* Lines 52, 53, 57, 58 and 59 assign self.color_image.
DecodedInto == "color_image"

\* Both are called on self.color_image.
DetectorInput == color_image

\* The threshold a model instance carries: the conf attribute set at load.
ModelConf(m) == IF m = 1 THEN cfg.model1.conf ELSE cfg.model2.conf

\* A floor taken from the configured threshold.
CallConfConfigured == cfg.model1.conf

\* conf=0.3 in both calls, in hundredths.
CallConf == 30

\* combined_frame = self.color_image, without the copy: the same object.
CopyRefAlias(src) == src

\* combined_frame = self.color_image.copy(): a new object.
CopyRef(src) == "combined"

\* The two handle_results calls in the other order.
HandledAtSwapped(line) == IF line = "L71" THEN 2 ELSE 1

\* handle_results(results1, ...) on line 71, handle_results(results2, ...)
\* on line 72.
HandledAt(line) == IF line = "L71" THEN 1 ELSE 2

ResultsOf(m) == IF m = 1 THEN results1 ELSE results2

\* handle_results builds each BoundingBox and drops it; nothing is handed
\* to position_pub.publish.
DetectionsPublished(m, dets) == <<>>

\* publish_image with step = width.
ImageMsgStepWidth(imgdata, height, width) ==
    [height |-> height, width |-> width, encoding |-> "rgb8",
     data |-> imgdata.data, frame_id |-> cfg.camera_frame,
     step |-> width]

\* The Image message of publish_image (the stamp is rospy.Time.now()).
ImageMsg(imgdata, height, width) ==
    [height |-> height, width |-> width, encoding |-> "rgb8",
     data |-> ToBytes(imgdata), frame_id |-> cfg.camera_frame,
     step |-> width * 3]

\* What __init__ leaves in self for one setting of the parameters: the
\* parameters kept, the device chosen from /use_cpu, the two models with
\* the conf attribute set on them, and the two publishers.
Config(frame, compressed, show, conf, use_cpu) ==
    [camera_frame |-> frame, use_compressed |-> compressed, visualize |-> show,
     device |-> IF use_cpu THEN "cpu" ELSE "cuda",
     model1 |-> [weights |-> "new_object_detect.pt", conf |-> conf],
     model2 |-> [weights |-> "yolov8m.pt", conf |-> conf],
     position_topic |-> "/yolov8/BoundingBoxes",
     image_topic |-> "/yolov8/detection_image"]

\* The defaults (conf 0.5 is 50 hundredths) and the setting that differs
\* from them in every parameter.
Configs ==
    {Config("", FALSE, TRUE, 50, FALSE),
     Config("camera_link", TRUE, FALSE, 20, TRUE)}

\* ------------------------------------------------------------------- actions

Init ==
    /\ cfg \in Configs
    /\ pc = "Idle"
    /\ image = NoneVal
    /\ color_image = "Unset"
    /\ combined_frame = "None"
    /\ heap = [r \in Refs |-> Free]
    /\ results1 = <<>>
    /\ results2 = <<>>
    /\ position_pub = <<>>
    /\ image_pub = <<>>
    /\ calls = <<>>
    /\ drawn = <<>>
    /\ decoded = NoneVal
    /\ err = "None"
    /\ failed = FALSE
    /\ ctor = "L48"

\* What the callback thread holds: all but ctor.
callback_vars ==
    <<cfg, pc, image, color_image, combined_frame, heap, results1, results2,
      position_pub, image_pub, calls, drawn, decoded, err, failed>>

\* Line 48, on the main thread: self.position_pub is created.
CreatePositionPub ==
    /\ ctor = "L48"
    /\ ctor' = "L49"
    /\ UNCHANGED callback_vars

\* Line 49, on the main thread: self.image_pub is created; __init__ returns
\* and main goes on to rospy.spin.
CreateImagePub ==
    /\ ctor = "L49"
    /\ ctor' = "Done"
    /\ UNCHANGED callback_vars

\* rospy's receive thread invokes the subscriber's callback with the next
\* message, from line 43/45 on.
Callback ==
    /\ pc = "Idle"
    /\ \E m \in MessagesFor(cfg) : image' = m
    /\ pc' = EntryLine(cfg)
    /\ UNCHANGED <<ctor, failed, cfg, color_image, combined_frame, heap, results1, results2,
                   position_pub, image_pub, calls, drawn, decoded, err>>

Raise(line, e) ==
    /\ pc' = line
    /\ err' = e

\* self.<attr> = v: color_image is kept apart from what __init__ set.
SetSelf(attr, v) ==
    IF attr = "color_image"
    THEN color_image' = v /\ UNCHANGED cfg
    ELSE cfg' = [cfg EXCEPT ![attr] = v] /\ UNCHANGED color_image

\* Line 52: frombuffer + reshape, assigned to self.color_image.
ReshapeStep ==
    /\ pc = "L52"
    /\ IF ReshapeFails(image.data, image.height, image.width)
       THEN /\ Raise(AfterDecodeFailure("L52"), "ValueError")
            /\ UNCHANGED <<cfg, color_image, heap>>
       ELSE /\ SetSelf(DecodedInto, "color")
            /\ heap' = [heap EXCEPT !["color"] =
                           Reshape(image.data, image.height, image.width)]
            /\ pc' = "L53"
            /\ UNCHANGED err
    /\ UNCHANGED <<ctor, failed, image, combined_frame, results1, results2,
                   position_pub, image_pub, calls, drawn, decoded>>

\* Lines 57-58: fromstring + imdecode, assigned to self.color_image.
ImdecodeStep ==
    /\ pc = "L57"
    /\ IF ImdecodeRaises(image.data)
       THEN /\ Raise(AfterDecodeFailure("L57"), "cv2.error")
            /\ UNCHANGED <<cfg, color_image, heap>>
       ELSE /\ SetSelf(DecodedInto,
                       IF IsArray(Imdecode(image.data)) THEN "color" ELSE "None")
            /\ heap' = [heap EXCEPT !["color"] =
                           IF IsArray(Imdecode(image.data))
                           THEN Imdecode(image.data) ELSE Free]
            /\ pc' = "L59"
            /\ UNCHANGED err
    /\ UNCHANGED <<ctor, failed, image, combined_frame, results1, results2,
                   position_pub, image_pub, calls, drawn, decoded>>

\* Lines 53 and 59: cvtColor, assigned to self.color_image; then
\* process_image is entered.
CvtColorStep ==
    /\ pc \in {"L53", "L59"}
    /\ IF CvtColorFails(Deref(color_image))
       THEN /\ Raise(AfterDecodeFailure(pc), "cv2.error")
            /\ UNCHANGED <<cfg, color_image, heap, decoded>>
       ELSE /\ SetSelf(DecodedInto, "color")
            /\ heap' = [heap EXCEPT !["color"] = CvtColorBGR2RGB(Deref(color_image))]
            /\ decoded' = CvtColorBGR2RGB(Deref(color_image))
            /\ pc' = "L64"
            /\ UNCHANGED err
    /\ UNCHANGED <<ctor, failed, image, combined_frame, results1, results2,
                   position_pub, image_pub, calls, drawn>>

Invocation(m) ==
    [model |-> m, arg |-> DetectorInput, seen |-> Deref(DetectorInput),
     conf |-> CallConf, model_conf |-> ModelConf(m)]

\* Lines 64 and 65: a model is called and returns its boxes.
DetectorReturns ==
    /\ pc \in {"L64", "L65"}
    /\ calls' = Append(calls, Invocation(DetectorAt(pc)))
    /\ \E d \in DetSeqs :
          IF pc = "L64"
          THEN results1' = d /\ UNCHANGED results2
          ELSE /\ Len(results1) + Len(d) <= MaxDet
               /\ results2' = d /\ UNCHANGED results1
    /\ pc' = IF pc = "L64" THEN "L65" ELSE "L68"
    /\ UNCHANGED <<ctor, failed, cfg, image, color_image, combined_frame, heap,
                   position_pub, image_pub, drawn, decoded, err>>

\* Lines 64 and 65: a model is called and raises.
DetectorRaises ==
    /\ pc \in {"L64", "L65"}
    /\ calls' = Append(calls, Invocation(DetectorAt(pc)))
    /\ Raise(AfterDetectorFailure(pc), "ModelInferenceError")
    /\ UNCHANGED <<ctor, failed, cfg, image, color_image, combined_frame, heap, results1,
                   results2, position_pub, image_pub, drawn, decoded>>

\* Line 68: combined_frame = self.color_image.copy().
CopyStep ==
    /\ pc = "L68"
    /\ combined_frame' = CopyRef(color_image)
    /\ heap' = [heap EXCEPT ![CopyRef(color_image)] = CopyArray(heap[color_image])]
    /\ pc' = "L71"
    /\ UNCHANGED <<ctor, failed, cfg, image, color_image, results1, results2,
                   position_pub, image_pub, calls, drawn, decoded, err>>

\* Lines 71 and 72: one call of handle_results, the whole loop.
HandleResults ==
    /\ pc \in {"L71", "L72"}
    /\ pc' = IF pc = "L71" THEN "L72" ELSE "L74"
    /\ UNCHANGED <<ctor, failed, cfg, image, color_image, combined_frame, results1, results2,
                   image_pub, calls, decoded, err>>
    /\ LET m == HandledAt(pc)
       IN  /\ position_pub' = position_pub \o DetectionsPublished(m, ResultsOf(m))
           /\ \E inks \in InkChoices(heap[combined_frame], m, ResultsOf(m)) :
                  /\ drawn' = drawn \o DrawLog(m, ResultsOf(m), inks, combined_frame)
                  /\ heap' = [heap EXCEPT ![combined_frame] =
                                 DrawAll(heap[combined_frame], m, ResultsOf(m), inks)]

\* The frame when the loop body raises at a detection: at lines 82-91 the
\* frame is as the overlays before left it; at line 92 the rectangle of
\* line 91 is on it, without its text.
RaisedAt(a, bb, line) ==
    IF line = "L92" THEN DrawOverlay(a, bb, {}) ELSE a

\* Lines 71 and 72: a statement of the loop raises at detection k (a
\* KeyError of names, a cv2.error of rectangle or of putText): the overlays
\* before k are drawn, and box k's rectangle when it is putText that raised.
HandleResultsRaises ==
    /\ pc \in {"L71", "L72"}
    /\ Raise(AfterDrawFailure(pc), "DrawError")
    /\ UNCHANGED <<ctor, failed, cfg, image, color_image, combined_frame,
                   results1, results2, position_pub, image_pub, calls, decoded>>
    /\ LET m == HandledAt(pc)
       IN  \E k \in 1..Len(ResultsOf(m)) :
              \E inks \in InkChoices(heap[combined_frame], m,
                                     SubSeq(ResultsOf(m), 1, k - 1)) :
                 \E line \in {"L91", "L92"} :
                    /\ drawn' = drawn \o DrawLog(m, SubSeq(ResultsOf(m), 1, k - 1),
                                                  inks, combined_frame)
                    /\ heap' = [heap EXCEPT ![combined_frame] =
                                   RaisedAt(DrawAll(heap[combined_frame], m,
                                                    SubSeq(ResultsOf(m), 1, k - 1),
                                                    inks),
                                            BoundingBoxOf(m, ResultsOf(m)[k]),
                                            line)]

\* self.image_pub exists once line 49 has run.
HasImagePub == ctor = "Done"

\* Line 74: publish_image(combined_frame, shape[0], shape[1]); its line 105
\* reads self.image_pub, an AttributeError before line 49 has assigned it.
PublishImage ==
    /\ pc = "L74"
    /\ IF HasImagePub
       THEN /\ image_pub' = Append(image_pub,
                                   ImageMsg(heap[combined_frame],
                                            heap[color_image].height,
                                            heap[color_image].width))
            /\ pc' = "L76"
            /\ UNCHANGED err
       ELSE /\ Raise(AfterPublishFailure(pc), "AttributeError")
            /\ UNCHANGED image_pub
    /\ UNCHANGED <<ctor, failed, cfg, image, color_image, combined_frame, heap, results1,
                   results2, position_pub, calls, drawn, decoded>>

\* Line 76 with visualize off: lines 77-78 are skipped.
SkipVisualize ==
    /\ pc = "L76"
    /\ ~cfg.visualize
    /\ pc' = "Return"
    /\ UNCHANGED <<ctor, failed, cfg, image, color_image, combined_frame, heap, results1,
                   results2, position_pub, image_pub, calls, drawn, decoded, err>>

\* Lines 76-78 with visualize on, and cv2.imshow or cv2.waitKey raises (a
\* build without GUI support, no display): the image is already published.
VisualizeRaises ==
    /\ pc = "L76"
    /\ cfg.visualize
    /\ Raise(AfterShowFailure(pc), "cv2.error")
    /\ UNCHANGED <<ctor, failed, cfg, image, color_image, combined_frame, heap, results1,
                   results2, position_pub, image_pub, calls, drawn, decoded>>

\* Lines 76-78 with visualize on: the window shows combined_frame; it
\* changes nothing the node keeps.
Visualize ==
    /\ pc = "L76"
    /\ cfg.visualize
    /\ pc' = "Return"
    /\ UNCHANGED <<ctor, failed, cfg, image, color_image, combined_frame, heap, results1,
                   results2, position_pub, image_pub, calls, drawn, decoded, err>>

\* The callback is left, by return or by the exception rospy logs: its
\* locals go, self.color_image stays.
LeaveCallback ==
    /\ pc \in EndsCallback
    /\ pc' = "Idle"
    /\ image' = NoneVal
    /\ combined_frame' = "None"
    /\ heap' = [heap EXCEPT !["combined"] = Free]
    /\ results1' = <<>>
    /\ results2' = <<>>
    /\ position_pub' = <<>>
    /\ image_pub' = <<>>
    /\ calls' = <<>>
    /\ drawn' = <<>>
    /\ decoded' = NoneVal
    /\ err' = "None"
    /\ failed' = (failed \/ pc = "Raised")
    /\ UNCHANGED <<cfg, color_image, ctor>>

Next ==
    \/ CreatePositionPub
    \/ CreateImagePub
    \/ Callback
    \/ ReshapeStep
    \/ ImdecodeStep
    \/ CvtColorStep
    \/ DetectorReturns
    \/ DetectorRaises
    \/ CopyStep
    \/ HandleResults
    \/ HandleResultsRaises
    \/ PublishImage
    \/ Visualize
    \/ SkipVisualize
    \/ VisualizeRaises
    \/ LeaveCallback

Spec == Init /\ [][Next]_vars

\* The statements of a callback and its end.
PassStep ==
    \/ ReshapeStep
    \/ ImdecodeStep
    \/ CvtColorStep
    \/ DetectorReturns
    \/ DetectorRaises
    \/ CopyStep
    \/ HandleResultsRaises
    \/ HandleResults
    \/ PublishImage
    \/ Visualize
    \/ SkipVisualize
    \/ VisualizeRaises
    \/ LeaveCallback

\* The callback thread keeps running: every call in it returns or raises.
FairSpec == Spec /\ WF_vars(PassStep)

\* ------------------------------------------------------------------- claims

AfterDecode == {"L64", "L65", "L68", "L71", "L72", "L74", "L76", "Return"}
AfterDetection == {"L68", "L71", "L72", "L74", "L76", "Return"}
AfterDrawing == {"L74", "L76", "Return"}

NothingPublished == image_pub = <<>> /\ position_pub = <<>>

\* The detection list a detections message for this frame would carry.
MergedResult ==
    [i \in 1..Len(results1) |-> BoundingBoxOf(1, results1[i])]
    \o [i \in 1..Len(results2) |-> BoundingBoxOf(2, results2[i])]

\* C1: a callback that decoded its frame and got both detectors' results has,
\* when it returns, published exactly one detections message and exactly one
\* annotated image, also when both result lists are empty.
C1_OneDetectionsAndOneImage ==
    pc = "Return" => Len(position_pub) = 1 /\ Len(image_pub) = 1

\* C2: the detections message of a frame carries model1's detections in
\* their order followed by model2's in theirs, n1 + n2 entries in all.
C2_MessageCarriesMergedResult ==
    pc = "Return" =>
        /\ Len(position_pub) = 1
        /\ position_pub[1].bounding_boxes = MergedResult
        /\ Len(position_pub[1].bounding_boxes) = Len(results1) + Len(results2)

\* C3: once a detector call has raised, the callback has published neither
\* a detections message nor an annotated image.
C3_NoPublicationAfterDetectorFailure ==
    err = "ModelInferenceError" => NothingPublished

C3_Witness ==
    /\ pc = "Raised"
    /\ err = "ModelInferenceError"
    /\ Len(calls) = 2
    /\ Len(results1) > 0

\* C4: a raw message whose payload is not height*width*3 bytes long never
\* gets past the decode lines: no detector is called and nothing published.
C4_WrongLengthIsRejected ==
    (image.kind = "raw" /\ Len(image.data) # image.height * image.width * 3) =>
        /\ pc \in {"L52", "L53", "Raised"}
        /\ calls = <<>>
        /\ NothingPublished

\* C5: a compressed message that imdecode turns into no image ends the
\* callback in the decode lines with an error: no detector is called and
\* nothing is published.
C5_UndecodableIsDropped ==
    (image.kind = "compressed" /\ ~IsArray(Imdecode(image.data))) =>
        /\ pc \in {"L57", "L59", "Raised"}
        /\ pc = "Raised" => err = "cv2.error"
        /\ ~IsArray(decoded)
        /\ calls = <<>>
        /\ drawn = <<>>
        /\ NothingPublished

C5_Witness ==
    /\ pc = "Raised"
    /\ image.kind = "compressed"
    /\ Len(image.data) > 0
    /\ color_image = "None"
    /\ err = "cv2.error"

\* C6: from the end of decoding to the end of the callback the array
\* self.color_image refers to holds the decoded bytes; both detectors were
\* given that array with those bytes, and every overlay went to another
\* array.
C6_DecodedBufferUnchanged ==
    IsArray(decoded) =>
        /\ Deref(color_image) = decoded
        /\ \A i \in 1..Len(calls) :
              calls[i].arg = color_image /\ calls[i].seen = decoded
        /\ \A i \in 1..Len(drawn) : drawn[i].target # color_image

C6_Witness ==
    /\ pc = "Return"
    /\ \E i, j \in 1..Len(drawn) : drawn[i].model = 1 /\ drawn[j].model = 2
    /\ heap[combined_frame].data # decoded.data
    /\ heap[color_image] = decoded

\* C7 as stated: a callback that reached the detector calls has, when it
\* ends, invoked model1 once and then model2 once.
C7_EachDetectorExactlyOnce ==
    (pc \in {"Return", "Raised"} /\ IsArray(decoded)) =>
        /\ Len(calls) = 2
        /\ calls[1].model = 1
        /\ calls[2].model = 2

\* C7 amended: model1 is invoked exactly once, model2 at most once and only
\* after model1, exactly once when the callback gets past line 65; both get
\* the decoded buffer, and nothing is drawn or published before both calls.
C7_DetectorsInOrderBeforeOutput ==
    IsArray(decoded) =>
        /\ Len(calls) <= 2
        /\ \A i \in 1..Len(calls) :
              /\ calls[i].model = i
              /\ calls[i].arg = color_image
              /\ calls[i].seen = decoded
        /\ pc # "L64" => Len(calls) >= 1
        /\ pc \in AfterDetection => Len(calls) = 2
        /\ (drawn # <<>> \/ ~NothingPublished \/ combined_frame # "None") =>
               Len(calls) = 2

C7_Witness ==
    /\ pc = "Return"
    /\ Len(calls) = 2
    /\ drawn # <<>>
    /\ image_pub # <<>>

Covering(x, y) ==
    {i \in 1..Len(drawn) : OverlayCovers(drawn[i].box, drawn[i].ink, x, y)}

LastCovering(x, y) ==
    CHOOSE i \in Covering(x, y) : \A j \in Covering(x, y) : j <= i

PixelAt(a, x, y) ==
    [k \in 1..a.channels |-> a.data[(y * a.width + x) * a.channels + k]]

CoveredByBoth(x, y) ==
    /\ \E i \in Covering(x, y) : drawn[i].model = 1
    /\ \E i \in Covering(x, y) : drawn[i].model = 2

\* C8: no model1 overlay is drawn after a model2 overlay, and when drawing
\* is over, every pixel under overlays of both models was last written by
\* a model2 overlay and holds that overlay's colour.
C8_Model2DrawnLast ==
    /\ \A i, j \in 1..Len(drawn) :
          (i < j) => ~(drawn[i].model = 2 /\ drawn[j].model = 1)
    /\ pc \in AfterDrawing =>
          \A p \in FramePixels(heap[combined_frame]) :
              CoveredByBoth(p[1], p[2]) =>
                  /\ drawn[LastCovering(p[1], p[2])].model = 2
                  /\ PixelAt(heap[combined_frame], p[1], p[2]) = Green

C8_Witness ==
    /\ pc = "Return"
    /\ \E p \in FramePixels(heap[combined_frame]) :
          /\ CoveredByBoth(p[1], p[2])
          /\ PixelAt(decoded, p[1], p[2]) # Green
    /\ \E p \in FramePixels(heap[combined_frame]) : Covering(p[1], p[2]) = {}

\* C9: when both detectors returned no detection, the callback publishes
\* one annotated image and its pixels are those of the decoded buffer.
C9_NoDetectionsImageIdentical ==
    (pc \in AfterDetection /\ results1 = <<>> /\ results2 = <<>>) =>
        /\ pc \in {"L76", "Return"} => Len(image_pub) = 1
        /\ \A i \in 1..Len(image_pub) :
              /\ image_pub[i].data = decoded.data
              /\ image_pub[i].height = decoded.height
              /\ image_pub[i].width = decoded.width

C9_Witness ==
    /\ pc = "Return"
    /\ results1 = <<>>
    /\ results2 = <<>>
    /\ Len(image_pub) = 1
    /\ Len(image_pub[1].data) > 3

\* The colours of the scene in RGB order, read from the payload according
\* to the packing the message declares.
SceneRGB(m) ==
    IF m.encoding = "rgb8" THEN m.data
    ELSE [i \in 1..Len(m.data) |-> m.data[3 * ((i - 1) \div 3) + (2 - ((i - 1) % 3)) + 1]]

ExampleRGB == <<255, 0, 0,  0, 255, 0,  0, 0, 255,  255, 255, 255>>

\* C10 as stated, for frames of at least one pixel: every raw message with
\* height*width*3 payload bytes decodes, and to the scene's colours in RGB
\* order whatever the packing of the source.
C10_DecodesToRGBRegardless ==
    (image.kind = "raw" /\ Len(image.data) = image.height * image.width * 3
       /\ image.height * image.width >= 1 /\ pc \notin {"L52", "L53"}) =>
        /\ pc \in AfterDecode \/ err \in {"ModelInferenceError", "DrawError", "cv2.error",
                                      "AttributeError"}
        /\ decoded = Array(image.height, image.width, 3, SceneRGB(image))

\* C10 amended: every raw message with at least one pixel and
\* height*width*3 payload bytes decodes to a height x width x 3 buffer in
\* which bytes 0 and 2 of every pixel are exchanged, which is RGB order for
\* a BGR-packed source (the 2x2 example included).
C10_DecodeSwapsFirstAndThird ==
    (image.kind = "raw" /\ Len(image.data) = image.height * image.width * 3
       /\ image.height * image.width >= 1 /\ pc \notin {"L52", "L53"}) =>
        /\ pc \in AfterDecode \/ err \in {"ModelInferenceError", "DrawError", "cv2.error",
                                      "AttributeError"}
        /\ decoded.height = image.height
        /\ decoded.width = image.width
        /\ decoded.channels = 3
        /\ Len(decoded.data) = Len(image.data)
        /\ \A p \in 0..(image.height * image.width - 1) :
              /\ decoded.data[3 * p + 1] = image.data[3 * p + 3]
              /\ decoded.data[3 * p + 2] = image.data[3 * p + 2]
              /\ decoded.data[3 * p + 3] = image.data[3 * p + 1]
        /\ image.encoding = "bgr8" => decoded.data = SceneRGB(image)
        /\ image.data = ExampleData => decoded.data = ExampleRGB

C10_Witness ==
    /\ pc = "L64"
    /\ image.kind = "raw"
    /\ image.encoding = "bgr8"
    /\ image.height = 2
    /\ image.width = 2
    /\ image.data = ExampleData
    /\ decoded.data = ExampleRGB

\* C11: every annotated image published is rgb8, has the height and width
\* of the frame decoded from its message, step = 3 * width, the configured
\* frame id, and height * step bytes of data.
C11_ImageMessageWellFormed ==
    \A i \in 1..Len(image_pub) :
        /\ image_pub[i].encoding = "rgb8"
        /\ image_pub[i].height = decoded.height
        /\ image_pub[i].width = decoded.width
        /\ image.kind = "raw" =>
              image_pub[i].height = image.height /\ image_pub[i].width = image.width
        /\ image.kind = "compressed" =>
              image_pub[i].height = image.data[2] /\ image_pub[i].width = image.data[3]
        /\ image_pub[i].step = 3 * image_pub[i].width
        /\ image_pub[i].frame_id = cfg.camera_frame
        /\ Len(image_pub[i].data) = image_pub[i].height * image_pub[i].step

C11_Witness ==
    /\ pc = "Return"
    /\ Len(image_pub) = 1
    /\ image_pub[1].height = 2
    /\ image_pub[1].width = 2
    /\ image_pub[1].frame_id = "camera_link"
    /\ drawn # <<>>

\* The overlays of one model among those drawn, in the order drawn.
IsOfModel1(o) == o.model = 1
IsOfModel2(o) == o.model = 2
DrawnOf(m) == IF m = 1 THEN SelectSeq(drawn, IsOfModel1) ELSE SelectSeq(drawn, IsOfModel2)

LabelledFrom(m, names) ==
    \A i \in 1..Len(DrawnOf(m)) :
        /\ i <= Len(ResultsOf(m))
        /\ DrawnOf(m)[i].box.Class = names[ResultsOf(m)[i].cls]
        /\ DrawnOf(m)[i].label.name = names[ResultsOf(m)[i].cls]

\* C13: the name on a model-1 detection is model 1's name for its class id
\* and the name on a model-2 detection is model 2's; the two tables differ
\* on every id, so neither is ever the other model's name.
C13_LabelFromOwnModelTable ==
    /\ LabelledFrom(1, Names1)
    /\ LabelledFrom(2, Names2)
    /\ \A k \in DOMAIN Names1 \cap DOMAIN Names2 : Names1[k] # Names2[k]
    /\ pc \in {"L74", "L76", "Return"} =>
          /\ Len(DrawnOf(1)) = Len(results1)
          /\ Len(DrawnOf(2)) = Len(results2)

C13_Witness ==
    /\ pc = "Return"
    /\ \E i \in 1..Len(results1), j \in 1..Len(results2) :
          /\ results1[i].cls = results2[j].cls
          /\ DrawnOf(1)[i].box.Class = "target"
          /\ DrawnOf(2)[j].box.Class = "person"

\* What the decode lines make of a message.
DecodeOf(m) ==
    IF m.kind = "raw"
    THEN CvtColorBGR2RGB(Reshape(m.data, m.height, m.width))
    ELSE CvtColorBGR2RGB(Imdecode(m.data))

ValidFrame(m) ==
    IF m.kind = "raw"
    THEN m.height * m.width >= 1 /\ Len(m.data) = 3 * m.height * m.width
    ELSE m.kind = "compressed" /\ Decodable(m.data)

\* The annotated image of a frame and the two models' results for it.
InksOf(mdl) == [i \in 1..Len(DrawnOf(mdl)) |-> DrawnOf(mdl)[i].ink]

AllDrawn == Len(DrawnOf(1)) = Len(results1) /\ Len(DrawnOf(2)) = Len(results2)

AnnotatedOf(m, d1, d2) ==
    DrawAll(DrawAll(DecodeOf(m), 1, d1, InksOf(1)), 2, d2, InksOf(2))

PublishedAsIfNoFailure ==
    /\ Len(image_pub) = 1
    /\ AllDrawn
    /\ image_pub[1].data = AnnotatedOf(image, results1, results2).data
    /\ image_pub[1].height = DecodeOf(image).height
    /\ image_pub[1].width = DecodeOf(image).width
    /\ Len(calls) = 2

\* C12: every callback that has begun ends, by returning or by an
\* exception that rospy takes, and the node is idle again for the next
\* frame; a callback for a valid frame after earlier failures ends either
\* having detected and published what its message and detections alone
\* determine (the window may still raise after that), or by an exception
\* of its own detection or drawing, or, detected and drawn, by the
\* AttributeError of a publisher that __init__ has not created yet, which
\* no callback raises once line 49 has run.
C12_FailuresAreFrameLocal ==
    /\ []<>(pc = "Idle")
    /\ [][(pc' = "Idle" /\ pc # "Idle") => pc \in {"Return", "Raised"}]_vars
    /\ []((failed /\ ValidFrame(image) /\ pc \in {"Return", "Raised"}) =>
             \/ pc = "Return" /\ PublishedAsIfNoFailure
             \/ pc = "Raised" /\ err \in {"ModelInferenceError", "DrawError"}
             \/ pc = "Raised" /\ err = "cv2.error" /\ PublishedAsIfNoFailure
             \/ /\ pc = "Raised" /\ err = "AttributeError"
                /\ Len(calls) = 2 /\ AllDrawn /\ image_pub = <<>>)
    /\ [][(err' = "AttributeError" /\ err # "AttributeError") => ~HasImagePub]_vars
    /\ [][(failed /\ pc = "L74" /\ pc' # pc /\ HasImagePub) =>
             pc' = "L76" /\ Len(image_pub') = 1]_vars

C12_Witness ==
    /\ failed
    /\ pc = "Return"
    /\ ValidFrame(image)
    /\ PublishedAsIfNoFailure
    /\ drawn # <<>>

\* The controller's state as the lines of a callback realise it; a callback
\* that raised is still in the state whose statement raised until rospy has
\* taken the exception.
DecodingLines == {"L52", "L53", "L57", "L59"}
DetectingLines == {"L64", "L65"}
PublishingLines == {"L68", "L71", "L72", "L74", "L76", "Return"}

PhaseOf(line, e, dec) ==
    IF line = "Idle" THEN "Idle"
    ELSE IF line \in DecodingLines THEN "Decoding"
    ELSE IF line \in DetectingLines THEN "Detecting"
    ELSE IF line \in PublishingLines THEN "Publishing"
    ELSE IF e \in {"ValueError", "cv2.error"} /\ ~IsArray(dec) THEN "Decoding"
    ELSE IF e = "ModelInferenceError" THEN "Detecting"
    ELSE "Publishing"

PhaseEdges ==
    {<<"Idle", "Decoding">>, <<"Decoding", "Detecting">>,
     <<"Detecting", "Publishing">>, <<"Publishing", "Idle">>,
     <<"Decoding", "Idle">>, <<"Detecting", "Idle">>}

\* C14: the state changes only along Idle -> Decoding -> Detecting ->
\* Publishing -> Idle or the error edges Decoding -> Idle and Detecting ->
\* Idle; Detecting holds only with this frame's message decoded, Publishing
\* only with both detector calls of this frame returned.
C14_PhasesInOrder ==
    /\ [][PhaseOf(pc', err', decoded') # PhaseOf(pc, err, decoded) =>
             <<PhaseOf(pc, err, decoded), PhaseOf(pc', err', decoded')>>
                 \in PhaseEdges]_vars
    /\ [](PhaseOf(pc, err, decoded) = "Detecting" =>
             /\ IsArray(decoded)
             /\ decoded = DecodeOf(image)
             /\ \A i \in 1..Len(calls) : calls[i].seen = decoded)
    /\ [](PhaseOf(pc, err, decoded) = "Publishing" =>
             /\ Len(calls) = 2
             /\ \A i \in 1..2 : calls[i].seen = DecodeOf(image)
             /\ err \in {"None", "DrawError", "cv2.error", "AttributeError"})

C14_Witness ==
    /\ failed
    /\ pc = "Return"
    /\ PhaseOf(pc, err, decoded) = "Publishing"
    /\ Len(image_pub) = 1
    /\ results1 # <<>>

\* C17, as stated: in every detector call the floor passed is below the
\* threshold set on the model at load, whatever threshold is configured.
C17_FloorBelowModelThreshold ==
    \A i \in 1..Len(calls) : calls[i].conf < calls[i].model_conf

\* C17, amended: the floor passed to every detector call is 0.3 under
\* every configuration, the model carries the configured threshold, and
\* the floor is below that threshold exactly when it exceeds 0.3.
C17_FloorFixedAtThreeTenths ==
    \A i \in 1..Len(calls) :
        /\ calls[i].conf = 30
        /\ calls[i].model_conf = cfg.model1.conf
        /\ calls[i].model_conf = cfg.model2.conf
        /\ calls[i].conf < calls[i].model_conf <=> cfg.model1.conf > 30
        /\ cfg = Config("", FALSE, TRUE, 50, FALSE) =>
              calls[i].conf < calls[i].model_conf

C17_Witness ==
    /\ Len(calls) = 2
    /\ cfg.model1.conf = 20
    /\ calls[1].conf = 30
    /\ calls[2].conf = 30

\* C18: no step of any callback, returning or raising, changes what
\* __init__ set (frame id, device, input and display flags, the two models
\* and the two publishers); self.color_image is the one attribute written,
\* and only by the decode lines.  The publishers are assigned by lines 48
\* and 49 of __init__ alone, once each, in steps that are no callback's.
C18_ConfigurationNeverChanges ==
    /\ [][cfg' = cfg]_vars
    /\ [](cfg \in Configs)
    /\ [][color_image' # color_image => pc \in DecodingLines]_vars
    /\ [][ctor' # ctor =>
             /\ <<ctor, ctor'>> \in {<<"L48", "L49">>, <<"L49", "Done">>}
             /\ UNCHANGED callback_vars]_vars

C18_Witness ==
    /\ failed
    /\ pc = "Idle"
    /\ color_image = "color"
    /\ cfg = Config("camera_link", TRUE, FALSE, 20, TRUE)
    /\ ctor = "Done"

\* C19: the array the detectors are called on, the array copied and drawn
\* on and the bytes published are those decoded from the message this
\* callback was called with; after a decode line has raised, leaving the
\* previous frame or None in self.color_image, this callback calls no
\* detector, draws nothing and publishes nothing.
C19_PassUsesItsOwnFrame ==
    /\ (err \in {"ValueError", "cv2.error"} /\ ~IsArray(decoded)) =>
          calls = <<>> /\ drawn = <<>> /\ NothingPublished
    /\ color_image \in {"Unset", "None"} => calls = <<>> /\ NothingPublished
    /\ calls # <<>> =>
          /\ IsArray(decoded)
          /\ decoded = DecodeOf(image)
          /\ \A i \in 1..Len(calls) :
                calls[i].arg = "color" /\ calls[i].seen = decoded
    /\ pc = "L71" => Deref(combined_frame) = DecodeOf(image)
    /\ \A i \in 1..Len(drawn) : drawn[i].target = combined_frame
    /\ \A i \in 1..Len(image_pub) :
          /\ AllDrawn
          /\ image_pub[i].data = ToBytes(AnnotatedOf(image, results1, results2))

\* A raw frame whose reshape raised while the frame before it is still in
\* self.color_image.
C19_Witness ==
    /\ pc = "Raised"
    /\ err = "ValueError"
    /\ failed
    /\ color_image = "color"
    /\ IsArray(heap["color"])
    /\ heap["color"].data # <<>>
    /\ calls = <<>>

\* C20: a callback publishes at most one image, and a published image
\* carries the overlay of every detection of model 1 and of model 2; when
\* a drawing statement raises, nothing is published, however many overlays
\* were drawn before it.
C20_PublishedOnlyFullyAnnotated ==
    /\ Len(image_pub) <= 1
    /\ err \in {"DrawError", "AttributeError"} => image_pub = <<>>
    /\ image_pub # <<>> =>
          /\ err \in {"None", "cv2.error"}
          /\ Len(DrawnOf(1)) = Len(results1)
          /\ Len(DrawnOf(2)) = Len(results2)
          /\ Len(drawn) = Len(results1) + Len(results2)
          /\ image_pub[1].data =
                ToBytes(DrawAll(DrawAll(decoded, 1, results1, InksOf(1)),
                                2, results2, InksOf(2)))

\* Drawing raised at the text of the second overlay: the copy holds the
\* first overlay and the second's rectangle.
C20_Witness ==
    /\ pc = "Raised"
    /\ err = "DrawError"
    /\ Len(drawn) = 1
    /\ Len(results1) + Len(results2) > 1
    /\ Deref(combined_frame) # decoded
    /\ Deref(combined_frame) #
          DrawAll(DrawAll(decoded, 1, SubSeq(results1, 1, Len(DrawnOf(1))),
                          InksOf(1)),
                  2, SubSeq(results2, 1, Len(DrawnOf(2))), InksOf(2))
    /\ image_pub = <<>>

====
